---- MODULE Spec2Model ----
(***************************************************************************)
(* A model of the n-tree of src/src/lib.rs (NTree: new, insert,            *)
(* split_and_insert, contains, nearby, range_query and RangeQuery::next)   *)
(* over the Region the tests of the tree use, QuadTreeRegion of            *)
(* src/src/test.rs.                                                        *)
(*                                                                         *)
(* Coordinates are f64 in the source.  The model keeps the arithmetic of   *)
(* a binary format of finite precision at a smaller scale: its numbers     *)
(* are the integers (the last place of the format is 1), sums are exact,   *)
(* and width / 2.0 is rounded to the nearest number of the format, a tie   *)
(* going to the even one (Half).  The root is a square of side             *)
(* 2^MaxDepth, so a region is halved exactly MaxDepth times; the next      *)
(* halving gives children of side 0 at the corner of their parent, as      *)
(* x + width / 2.0 gives x in f64 once width / 2.0 is below the last       *)
(* place of x.  A region of side 0 splits into four copies of itself, so   *)
(* the recursion of insert has no end there; the model follows it up to    *)
(* MaxRecursion activations of split_and_insert (see InsertStep).          *)
(*                                                                         *)
(* src/tests/test.rs holds an earlier QuadTreeRegion whose contains is     *)
(* strict (<, >), so that a point on the border between the children of a  *)
(* split is in none of them; the tests of the tree use the inclusive one   *)
(* of src/src/test.rs, which is the one modelled here.                     *)
(*                                                                         *)
(* insert is recursive in the source; the model runs it one activation at  *)
(* a time.  `call` is the activation of insert that is running, `frames`   *)
(* the activations of split_and_insert that wait for it.                   *)
(***************************************************************************)
EXTENDS Integers, Sequences, FiniteSets, Bags, TLC

\* Bounds of the model.
MaxDepth == 3
MaxInserts == 3
MaxSize == 2
MaxNones == 2

VARIABLES
    tree,      \* the NTree value (the root)
    size,      \* the bucket limit handed to NTree::new
    call,      \* the running activation of insert, or NoCall
    frames,    \* stack of split_and_insert activations: the node and what is left to insert
    op,        \* the top-level insert call: its point, the tree before it, its result
    inserted,  \* the points whose top-level insert returned true, in call order
    rq,        \* the RangeQuery iterator in use, or NoRq
    cur        \* the last value returned by contains or nearby (kind "none": no value)

vars == <<tree, size, call, frames, op, inserted, rq, cur>>

----------------------------------------------------------------------------
\* Region and point: QuadTreeRegion and Vec2 of the crate's tests.

Vec2(x, y) == [x |-> x, y |-> y]

QuadTreeRegion(x, y, width, height) == [x |-> x, y |-> y, width |-> width, height |-> height]

square(x, y, wh) == QuadTreeRegion(x, y, wh, wh)

\* Region::contains
Contains(r, p) ==
    r.x <= p.x /\ r.y <= p.y /\ (r.x + r.width) >= p.x /\ (r.y + r.height) >= p.y

\* width / 2.0 in a format whose last place is 1: round to nearest, ties to even.
Half(v) ==
    IF v % 2 = 0 THEN v \div 2
    ELSE IF ((v - 1) \div 2) % 2 = 0 THEN (v - 1) \div 2 ELSE (v + 1) \div 2

\* Region::split
Split(r) ==
    LET halfwidth == Half(r.width)
        halfheight == Half(r.height)
    IN << QuadTreeRegion(r.x, r.y, halfwidth, halfheight),
          QuadTreeRegion(r.x, r.y + halfheight, halfwidth, halfheight),
          QuadTreeRegion(r.x + halfwidth, r.y, halfwidth, halfheight),
          QuadTreeRegion(r.x + halfwidth, r.y + halfheight, halfwidth, halfheight) >>

\* Region::overlaps: some corner of self lies in other.
Overlaps(self, other) ==
    \/ Contains(other, Vec2(self.x, self.y))
    \/ Contains(other, Vec2(self.x + self.width, self.y))
    \/ Contains(other, Vec2(self.x, self.y + self.height))
    \/ Contains(other, Vec2(self.x + self.width, self.y + self.height))

----------------------------------------------------------------------------
\* The tree.

Bucket(region, points, bucket_limit) ==
    [kind |-> "Bucket", region |-> region, points |-> points, bucket_limit |-> bucket_limit]

Branch(region, subregions) ==
    [kind |-> "Branch", region |-> region, subregions |-> subregions]

\* new that builds a bare bucket.
NewBare(region, sz) == Bucket(region, <<>>, sz)

\* new that lays the children out in the reverse of the order split returns.
NewReversed(region, sz) ==
    LET rs == Split(region)
    IN Branch(region, [i \in 1..Len(rs) |-> Bucket(rs[Len(rs) + 1 - i], <<>>, sz)])

\* NTree::new
New(region, sz) ==
    LET rs == Split(region)
    IN Branch(region, [i \in 1..Len(rs) |-> Bucket(rs[i], <<>>, sz)])

\* NTree::contains
TreeContains(node, point) == Contains(node.region, point)

\* The node a sequence of child indices leads to, and the tree with that node replaced
\* (the &mut NTree the recursion holds).
RECURSIVE NodeAt(_, _)
NodeAt(t, path) ==
    IF path = <<>> THEN t ELSE NodeAt(t.subregions[Head(path)], Tail(path))

RECURSIVE ReplaceAt(_, _, _)
ReplaceAt(t, path, n) ==
    IF path = <<>> THEN n
    ELSE [t EXCEPT !.subregions[Head(path)] = ReplaceAt(@, Tail(path), n)]

\* subregions.iter().find(|r| r.contains(point)): the index of the first child that
\* contains the point, 0 when there is none.
FindChild(node, point) ==
    LET hits == {i \in 1..Len(node.subregions) : TreeContains(node.subregions[i], point)}
    IN IF hits = {} THEN 0 ELSE CHOOSE i \in hits : \A j \in hits : i <= j

----------------------------------------------------------------------------
\* insert, one activation at a time.

NoCall == [active |-> FALSE]

\* The activations of split_and_insert the model lets wait at a time: enough for a
\* region of side 0 to be split twice under a root child.
MaxRecursion == MaxDepth + 2

\* The index of the last child that contains the point, 0 when there is none.
FindChildLast(node, point) ==
    LET hits == {i \in 1..Len(node.subregions) : TreeContains(node.subregions[i], point)}
    IN IF hits = {} THEN 0 ELSE CHOOSE i \in hits : \A j \in hits : i >= j

\* insert that tests no region: a branch hands a point none of its children contains to
\* its last child, a bucket takes what it is handed.
InsertOutcomeUnchecked(node, point) ==
    IF node.kind = "Bucket"
    THEN IF Len(node.points) % 256 # node.bucket_limit
         THEN [tag |-> "return", value |-> TRUE,
               node |-> [node EXCEPT !.points = Append(@, point)]]
         ELSE [tag |-> "split"]
    ELSE [tag |-> "recurse",
          child |-> IF FindChild(node, point) # 0 THEN FindChild(node, point)
                    ELSE Len(node.subregions)]

\* insert whose bucket arm tests len > bucket_limit for "full".
InsertOutcomeOffByOne(node, point) ==
    IF node.kind = "Bucket"
    THEN IF Contains(node.region, point)
         THEN IF Len(node.points) % 256 <= node.bucket_limit
              THEN [tag |-> "return", value |-> TRUE,
                    node |-> [node EXCEPT !.points = Append(@, point)]]
              ELSE [tag |-> "split"]
         ELSE [tag |-> "return", value |-> FALSE, node |-> node]
    ELSE IF Contains(node.region, point)
         THEN IF FindChild(node, point) # 0
              THEN [tag |-> "recurse", child |-> FindChild(node, point)]
              ELSE [tag |-> "return", value |-> FALSE, node |-> node]
         ELSE [tag |-> "return", value |-> FALSE, node |-> node]

\* One activation of NTree::insert on `node`: it returns a value (with the node as it
\* leaves it), recurses into a child, or falls through to split_and_insert.
InsertOutcome(node, point) ==
    IF node.kind = "Bucket"
    THEN IF Contains(node.region, point)
         THEN IF Len(node.points) % 256 # node.bucket_limit
              THEN [tag |-> "return", value |-> TRUE,
                    node |-> [node EXCEPT !.points = Append(@, point)]]
              ELSE [tag |-> "split"]
         ELSE [tag |-> "return", value |-> FALSE, node |-> node]
    ELSE IF Contains(node.region, point)
         THEN IF FindChild(node, point) # 0
              THEN [tag |-> "recurse", child |-> FindChild(node, point)]
              ELSE [tag |-> "return", value |-> FALSE, node |-> node]
         ELSE [tag |-> "return", value |-> FALSE, node |-> node]

\* split_and_insert that gives the new buckets room for one point more.
SplitReplacementGrow(bucket) == New(bucket.region, bucket.bucket_limit + 1)

\* split_and_insert, up to its loop: the node that replaces the bucket.
SplitReplacement(bucket) == New(bucket.region, bucket.bucket_limit)

\* split_and_insert that inserts the new point before the old ones.
SplitTodoNewFirst(bucket, point) == <<point>> \o bucket.points

\* split_and_insert whose loop misses the first old point.
SplitTodoSkipFirst(bucket, point) ==
    Append(IF bucket.points = <<>> THEN <<>> ELSE Tail(bucket.points), point)

\* split_and_insert, from its loop on: the points the loop and the final insert hand to
\* bucket.insert, in that order.
SplitTodo(bucket, point) == Append(bucket.points, point)

\* The top-level insert returns v.
Returned(v) ==
    /\ op' = [op EXCEPT !.returned = TRUE, !.value = v]
    /\ inserted' = IF v THEN Append(inserted, op.point) ELSE inserted

\* tree.insert(p) is called.
InsertCall(p) ==
    /\ ~call.active /\ frames = <<>> /\ ~rq.active
    /\ Len(inserted) < MaxInserts
    /\ call' = [active |-> TRUE, path |-> <<>>, point |-> p]
    /\ op' = [point |-> p, pre |-> tree, returned |-> FALSE, value |-> FALSE, split |-> <<>>]
    /\ cur' = [kind |-> "none"]
    /\ UNCHANGED <<tree, size, frames, inserted, rq>>

\* The running activation of insert runs its body.
InsertStep ==
    /\ call.active
    /\ LET node == NodeAt(tree, call.path)
           o == InsertOutcome(node, call.point)
       IN IF o.tag = "return"
          THEN /\ tree' = ReplaceAt(tree, call.path, o.node)
               /\ call' = NoCall
               /\ IF frames = <<>> THEN Returned(o.value) ELSE UNCHANGED <<op, inserted>>
               /\ UNCHANGED frames
          ELSE IF o.tag = "recurse"
          THEN /\ call' = [call EXCEPT !.path = Append(@, o.child)]
               /\ UNCHANGED <<tree, frames, op, inserted>>
          ELSE /\ Len(frames) < MaxRecursion
               /\ tree' = ReplaceAt(tree, call.path, SplitReplacement(node))
               /\ frames' = Append(frames, [path |-> call.path, todo |-> SplitTodo(node, call.point)])
               /\ call' = NoCall
               /\ op' = [op EXCEPT !.split = Append(@, call.path)]
               /\ UNCHANGED inserted
    /\ UNCHANGED <<size, rq, cur>>

\* The innermost split_and_insert goes on: it calls bucket.insert for the next point, or
\* it is through, and the insert that called it returns true.
SplitStep ==
    /\ ~call.active /\ frames # <<>>
    /\ LET top == frames[Len(frames)]
       IN IF top.todo # <<>>
          THEN /\ call' = [active |-> TRUE, path |-> top.path, point |-> Head(top.todo)]
               /\ frames' = [frames EXCEPT ![Len(frames)].todo = Tail(@)]
               /\ UNCHANGED <<op, inserted>>
          ELSE /\ frames' = SubSeq(frames, 1, Len(frames) - 1)
               /\ call' = NoCall
               /\ IF Len(frames) = 1 THEN Returned(TRUE) ELSE UNCHANGED <<op, inserted>>
    /\ UNCHANGED <<tree, size, rq, cur>>

----------------------------------------------------------------------------
\* nearby and contains.

\* nearby that descends into the last child that contains the point.
RECURSIVE NearbyLast(_, _)
NearbyLast(node, point) ==
    IF node.kind = "Bucket"
    THEN IF Contains(node.region, point)
         THEN [some |-> TRUE, points |-> node.points]
         ELSE [some |-> FALSE]
    ELSE IF Contains(node.region, point)
         THEN IF FindChildLast(node, point) # 0
              THEN NearbyLast(node.subregions[FindChildLast(node, point)], point)
              ELSE [some |-> FALSE]
         ELSE [some |-> FALSE]

\* NTree::nearby
RECURSIVE Nearby(_, _)
Nearby(node, point) ==
    IF node.kind = "Bucket"
    THEN IF Contains(node.region, point)
         THEN [some |-> TRUE, points |-> node.points]
         ELSE [some |-> FALSE]
    ELSE IF Contains(node.region, point)
         THEN IF FindChild(node, point) # 0
              THEN Nearby(node.subregions[FindChild(node, point)], point)
              ELSE [some |-> FALSE]
         ELSE [some |-> FALSE]

Idle == ~call.active /\ frames = <<>>

\* The bucket paths the first-containing-child descent for a point can end at.
RECURSIVE FirstPath(_, _)
FirstPath(node, point) ==
    IF node.kind = "Bucket" \/ FindChild(node, point) = 0 THEN <<>>
    ELSE <<FindChild(node, point)>> \o FirstPath(node.subregions[FindChild(node, point)], point)

\* nearby that takes the points out of the bucket it returns (mem::replace, as
\* split_and_insert does).
NearbyCallTake(p) ==
    /\ Idle /\ ~rq.active
    /\ cur' = [kind |-> "nearby", arg |-> p, result |-> Nearby(tree, p),
               rep |-> (cur.kind = "nearby" /\ cur.arg = p)]
    /\ tree' = IF NodeAt(tree, FirstPath(tree, p)).kind = "Bucket"
               THEN ReplaceAt(tree, FirstPath(tree, p),
                              [NodeAt(tree, FirstPath(tree, p)) EXCEPT !.points = <<>>])
               ELSE tree
    /\ UNCHANGED <<size, call, frames, op, inserted, rq>>

\* tree.nearby(&p) is called.
NearbyCall(p) ==
    /\ Idle /\ ~rq.active
    /\ cur' = [kind |-> "nearby", arg |-> p, result |-> Nearby(tree, p),
               rep |-> (cur.kind = "nearby" /\ cur.arg = p)]
    /\ UNCHANGED <<tree, size, call, frames, op, inserted, rq>>

\* tree.contains(&p) is called.
ContainsCall(p) ==
    /\ Idle /\ ~rq.active
    /\ cur' = [kind |-> "contains", arg |-> p, result |-> TreeContains(tree, p),
               rep |-> (cur.kind = "contains" /\ cur.arg = p)]
    /\ UNCHANGED <<tree, size, call, frames, op, inserted, rq>>

----------------------------------------------------------------------------
\* range_query and its iterator.  A slice::Items cursor is the sequence of the items it
\* has not handed out yet.

NoRq == [active |-> FALSE]

\* RangeQuery::next: the iterator after the call and what the call returns.
RECURSIVE Outer(_), RegionSearch(_), Children(_, _)

\* The outer loop of next when it leaves the point it yields in the cursor.
OuterKeep(it) ==
    LET hits == {i \in 1..Len(it.points) : Contains(it.query, it.points[i])}
    IN IF hits # {}
       THEN LET i == CHOOSE i \in hits : \A j \in hits : i <= j
            IN [it |-> [it EXCEPT !.points = SubSeq(@, i, Len(@))],
                some |-> TRUE, p |-> it.points[i]]
       ELSE RegionSearch([it EXCEPT !.points = <<>>])

Outer(it) ==
    LET hits == {i \in 1..Len(it.points) : Contains(it.query, it.points[i])}
    IN IF hits # {}
       THEN LET i == CHOOSE i \in hits : \A j \in hits : i <= j
            IN [it |-> [it EXCEPT !.points = SubSeq(@, i + 1, Len(@))],
                some |-> TRUE, p |-> it.points[i]]
       ELSE RegionSearch([it EXCEPT !.points = <<>>])

RegionSearch(it) ==
    IF it.stack = <<>>
    THEN [it |-> it, some |-> FALSE]
    ELSE Children([it EXCEPT !.stack = SubSeq(@, 1, Len(@) - 1)], it.stack[Len(it.stack)])

Children(it, children_iter) ==
    IF children_iter = <<>>
    THEN RegionSearch(it)
    ELSE LET item == Head(children_iter)
             rest == Tail(children_iter)
         IN IF item.kind = "Bucket"
            THEN IF Overlaps(item.region, it.query)
                 THEN Outer([it EXCEPT !.points = item.points, !.stack = Append(@, rest)])
                 ELSE Children(it, rest)
            ELSE IF Overlaps(item.region, it.query)
                 THEN Children([it EXCEPT !.stack = Append(@, rest)], item.subregions)
                 ELSE Children(it, rest)

RqNext(it) == Outer(it)

\* range_query whose stack holds the cursor over the root twice.
RangeQueryIterTwice(t, query) == [query |-> query, points |-> <<>>, stack |-> << <<t>>, <<t>> >>]

\* NTree::range_query: points is empty_iterator(), the stack holds a cursor over the
\* one-element slice of the root.
RangeQueryIter(t, query) == [query |-> query, points |-> <<>>, stack |-> << <<t>> >>]

\* tree.range_query(&q) is called.  `prev` keeps what the last traversal yielded when it
\* ran to its end for the same query, `nones` counts the calls of next that returned None.
RangeQuery(q) ==
    /\ Idle
    /\ rq' = [active |-> TRUE, it |-> RangeQueryIter(tree, q), out |-> <<>>, done |-> FALSE,
              nones |-> 0,
              prev |-> IF rq.active /\ rq.done /\ rq.it.query = q
                       THEN [has |-> TRUE, out |-> rq.out]
                       ELSE [has |-> FALSE]]
    /\ cur' = [kind |-> "none"]
    /\ UNCHANGED <<tree, size, call, frames, op, inserted>>

\* next() is called on the iterator (the model stops calling it after MaxNones Nones).
RqNextCall ==
    /\ rq.active /\ rq.nones < MaxNones
    /\ LET r == RqNext(rq.it)
       IN rq' = [rq EXCEPT !.it = r.it,
                           !.out = IF r.some THEN Append(@, r.p) ELSE @,
                           !.done = ~r.some,
                           !.nones = IF r.some THEN @ ELSE @ + 1]
    /\ UNCHANGED <<tree, size, call, frames, op, inserted, cur>>

\* The iterator is dropped (its borrow of the tree ends).
RqDrop ==
    /\ rq.active
    /\ rq' = NoRq
    /\ UNCHANGED <<tree, size, call, frames, op, inserted, cur>>

----------------------------------------------------------------------------
\* Inputs.

RootWidth == 2 ^ MaxDepth

\* NTree::new(QuadTreeRegion::square(0.0, 0.0, 100.0), 4) in the tests; the model's root
\* has a side that halves MaxDepth times.
RootRegion == square(0, 0, RootWidth)

Unit == RootWidth \div 8

\* Points: the corner of the root, inside one quarter, on the border shared by children at
\* both levels, in another quarter, and outside the root.
Points ==
    { Vec2(0, 0), Vec2(Unit, Unit), Vec2(2 * Unit, 2 * Unit),
      Vec2(4 * Unit, 4 * Unit), Vec2(5 * Unit, Unit), Vec2(9 * Unit, Unit) }

\* Query regions: the whole root, a band along its lower edge (as in test_range_query),
\* and a square inside the root's lower left quarter.
Queries ==
    { square(0, 0, RootWidth),
      QuadTreeRegion(0, 0, RootWidth, 3 * Unit),
      square(Unit, Unit, 2 * Unit) }

Init ==
    /\ size \in 0..MaxSize
    /\ tree = New(RootRegion, size)
    /\ call = NoCall
    /\ frames = <<>>
    /\ op = [point |-> Vec2(0, 0), pre |-> tree, returned |-> FALSE, value |-> FALSE,
             split |-> <<>>]
    /\ inserted = <<>>
    /\ rq = NoRq
    /\ cur = [kind |-> "none"]

Next ==
    \/ \E p \in Points : InsertCall(p)
    \/ InsertStep
    \/ SplitStep
    \/ \E p \in Points : NearbyCall(p)
    \/ \E p \in Points : ContainsCall(p)
    \/ \E q \in Queries : RangeQuery(q)
    \/ RqNextCall
    \/ RqDrop

Spec == Init /\ [][Next]_vars

\* insert runs to its end without a pause: an activation that can take its step takes it.
FairSpec == Spec /\ WF_vars(InsertStep) /\ WF_vars(SplitStep)

----------------------------------------------------------------------------
\* What the claims speak of.

Range(s) == {s[i] : i \in DOMAIN s}

BagOfSeq(s) == [e \in Range(s) |-> Cardinality({i \in DOMAIN s : s[i] = e})]

RECURSIVE Concat(_)
Concat(ss) == IF ss = <<>> THEN <<>> ELSE Head(ss) \o Concat(Tail(ss))

\* Every point stored under a node, buckets left to right.
RECURSIVE AllPoints(_)
AllPoints(t) ==
    IF t.kind = "Bucket" THEN t.points
    ELSE Concat([i \in 1..Len(t.subregions) |-> AllPoints(t.subregions[i])])

\* The buckets under a node.
RECURSIVE Buckets(_)
Buckets(t) ==
    IF t.kind = "Bucket" THEN {t}
    ELSE UNION {Buckets(t.subregions[i]) : i \in 1..Len(t.subregions)}

\* A top-level insert has returned, and nothing was inserted since.
InsertReturned == op.returned

----------------------------------------------------------------------------
\* C1: when a range_query traversal has run to its end, the points it yielded are
\* exactly the inserted points that the query region contains.
C1_RangeQueryExact ==
    (rq.active /\ rq.done) =>
        Range(rq.out) = {p \in Range(inserted) : Contains(rq.it.query, p)}

\* C2: when insert(p) has returned, it returned true exactly if p is stored in some
\* bucket, and if it returned false the tree is the tree before the call.
C2_InsertResult ==
    InsertReturned =>
        /\ op.value <=> (op.point \in Range(AllPoints(tree)))
        /\ ~op.value => tree = op.pre

\* C3: when an insert that split a bucket has returned, the tree holds the points it
\* held before and the new point once more, and the subtree that replaced the first
\* bucket split holds that bucket's points and the new point.
C3_SplitKeepsPoints ==
    (InsertReturned /\ op.split # <<>>) =>
        /\ BagOfSeq(AllPoints(tree)) = BagOfSeq(AllPoints(op.pre)) (+) BagOfSeq(<<op.point>>)
        /\ Len(AllPoints(tree)) = Len(AllPoints(op.pre)) + 1
        /\ BagOfSeq(AllPoints(NodeAt(tree, op.split[1])))
             = BagOfSeq(NodeAt(op.pre, op.split[1]).points) (+) BagOfSeq(<<op.point>>)

\* C4: no bucket ever holds more points than its bucket_limit, and a step of insert on
\* a bucket that holds bucket_limit points (and contains the point) leaves a Branch in
\* its place and appends to no bucket.
FullBucketStep ==
    /\ call.active
    /\ NodeAt(tree, call.path).kind = "Bucket"
    /\ Len(NodeAt(tree, call.path).points) = NodeAt(tree, call.path).bucket_limit
    /\ Contains(NodeAt(tree, call.path).region, call.point)

C4_Capacity ==
    /\ [](\A b \in Buckets(tree) : Len(b.points) <= b.bucket_limit)
    /\ [][FullBucketStep =>
            /\ NodeAt(tree', call.path).kind = "Branch"
            /\ NodeAt(tree', call.path).region = NodeAt(tree, call.path).region
            /\ AllPoints(NodeAt(tree', call.path)) = <<>>]_vars

\* A full bucket has just been replaced by a branch of empty buckets.
C4_Witness ==
    /\ frames # <<>> /\ ~call.active
    /\ size > 0
    /\ Len(frames[Len(frames)].todo) = size + 1
    /\ NodeAt(tree, frames[Len(frames)].path).kind = "Branch"

----------------------------------------------------------------------------
\* C5: when insert(p) has returned true and tree.contains(p) holds, a nearby(p) called
\* next returns a sequence, and p is in it.
C5_NearbyAfterInsert ==
    (InsertReturned /\ op.value /\ TreeContains(tree, op.point)
        /\ cur.kind = "nearby" /\ cur.arg = op.point) =>
            /\ cur.result.some
            /\ op.point \in Range(cur.result.points)

\* C6: an insert of a point the root region does not contain returns false at once and
\* leaves the tree, and so the points it holds, as they were.
OutsideCall == ~Contains(op.pre.region, op.point)

C6_OutsideRejected ==
    /\ [](OutsideCall => tree = op.pre /\ AllPoints(tree) = AllPoints(op.pre)
                          /\ ~op.value /\ (op.returned \/ call.active))
    /\ [][(OutsideCall /\ call.active) => (op'.returned /\ ~op'.value /\ tree' = tree)]_vars

\* A point outside the root was rejected by a tree that has split a bucket.
C6_Witness ==
    /\ OutsideCall /\ op.returned /\ ~op.value
    /\ \E i \in 1..Len(tree.subregions) : tree.subregions[i].kind = "Branch"

\* The paths from a node to the buckets under it.
RECURSIVE BucketPaths(_)
BucketPaths(t) ==
    IF t.kind = "Bucket" THEN {<<>>}
    ELSE UNION {{<<i>> \o q : q \in BucketPaths(t.subregions[i])} : i \in 1..Len(t.subregions)}

\* The paths to a bucket on which every node contains the point and every step goes to
\* the first child, in child order, that contains it.
DescentPaths(t, point) ==
    {path \in BucketPaths(t) :
        /\ \A k \in 0..Len(path) : Contains(NodeAt(t, SubSeq(path, 1, k)).region, point)
        /\ \A k \in 1..Len(path) :
              \A j \in 1..(path[k] - 1) :
                  ~Contains(NodeAt(t, SubSeq(path, 1, k - 1)).subregions[j].region, point)}

\* C7: nearby(p) returns the whole point list of the one bucket the first-containing-child
\* descent from the root reaches, at most bucket_limit points, and it returns absent
\* exactly if that descent reaches no bucket.
C7_NearbyIsDescentBucket ==
    cur.kind = "nearby" =>
        LET ds == DescentPaths(tree, cur.arg)
        IN /\ Cardinality(ds) <= 1
           /\ cur.result.some <=> ds # {}
           /\ ~Contains(tree.region, cur.arg) => ~cur.result.some
           /\ cur.result.some =>
                 /\ \A path \in ds : cur.result.points = NodeAt(tree, path).points
                 /\ Len(cur.result.points) <= size

\* nearby has returned the points of a bucket two levels under the root, for a point
\* that more than one child of the root contains.
C7_Witness ==
    /\ cur.kind = "nearby" /\ cur.result.some /\ cur.result.points # <<>>
    /\ \E path \in DescentPaths(tree, cur.arg) : Len(path) >= 2
    /\ Cardinality({i \in 1..Len(tree.subregions) :
                        TreeContains(tree.subregions[i], cur.arg)}) > 1

\* The points of the nodes whose regions, and whose ancestors' regions, overlap the
\* query: depth first, children in stored order.
RECURSIVE Visited(_, _)
Visited(t, q) ==
    IF ~Overlaps(t.region, q) THEN <<>>
    ELSE IF t.kind = "Bucket" THEN t.points
    ELSE Concat([i \in 1..Len(t.subregions) |-> Visited(t.subregions[i], q)])

RECURSIVE IsSubseq(_, _)
IsSubseq(s, t) ==
    IF s = <<>> THEN TRUE
    ELSE IF t = <<>> THEN FALSE
    ELSE IF Head(s) = Head(t) THEN IsSubseq(Tail(s), Tail(t))
    ELSE IsSubseq(s, Tail(t))

\* C8: a traversal that has run to its end yielded the points of the visited buckets
\* depth first, children left to right, each bucket's points in stored order; and the
\* stored order of every bucket is the order its points were inserted in, also after
\* split_and_insert has moved them.
C8_TraversalOrder ==
    /\ (rq.active /\ rq.done) =>
          rq.out = SelectSeq(Visited(tree, rq.it.query), LAMBDA p : Contains(rq.it.query, p))
    /\ Idle => \A b \in Buckets(tree) : IsSubseq(b.points, inserted)

\* A traversal has yielded three points, two of them from a bucket that a split filled.
C8_Witness ==
    /\ rq.active /\ rq.done /\ Len(rq.out) >= 3
    /\ \E path \in BucketPaths(tree) : Len(path) >= 2 /\ Len(NodeAt(tree, path).points) >= 2

\* C9: contains, nearby, range_query and next leave the tree as it is, and a query
\* repeated with no insert in between returns what it returned before.
QueryStep == op' = op /\ (rq' # rq \/ cur' # cur)

----------------------------------------------------------------------------
\* An insert of a point the root contains is running.
InsideCallRunning == ~OutsideCall /\ (call.active \/ frames # <<>>)

----------------------------------------------------------------------------
\* The points split_and_insert hands on when the running (or last) insert split its
\* first bucket, and the children of the replacement they are handed to (0: none).
FirstSplitPoints == Append(NodeAt(op.pre, op.split[1]).points, op.point)

FirstSplitRoutes ==
    {FindChild(SplitReplacement(NodeAt(op.pre, op.split[1])), FirstSplitPoints[i]) :
        i \in 1..Len(FirstSplitPoints)}

\* C11: with a bucket limit of at least 1, when an insert that found a bucket full and
\* whose split did not hand the bucket's points and the new point all to the same child
\* has returned, it has returned true and the subtree that replaced the bucket holds
\* the bucket's points and the new point.
C11_SpreadConverges ==
    (InsertReturned /\ size >= 1 /\ op.split # <<>> /\ Cardinality(FirstSplitRoutes) > 1) =>
        /\ op.value
        /\ BagOfSeq(AllPoints(NodeAt(tree, op.split[1]))) = BagOfSeq(FirstSplitPoints)

----------------------------------------------------------------------------
\* The running (or last) insert found a bucket full of copies of its point.
IdenticalCall ==
    /\ size >= 1 /\ op.split # <<>>
    /\ \A i \in 1..Len(FirstSplitPoints) : FirstSplitPoints[i] = op.point

IdenticalRun == IdenticalCall /\ (call.active \/ frames # <<>>)

----------------------------------------------------------------------------
\* C13: the root is a Branch in every state, and every activation of split_and_insert
\* starts on a Bucket below the root (the Branch arm of its match is not reached); the
\* node it works on is a Branch from then on.
C13_RootIsBranch ==
    /\ [](tree.kind = "Branch")
    /\ [](\A i \in 1..Len(frames) : NodeAt(tree, frames[i].path).kind = "Branch")
    /\ [][Len(frames') > Len(frames) =>
            /\ call.active /\ call.path # <<>>
            /\ NodeAt(tree, call.path).kind = "Bucket"]_vars

\* split_and_insert runs on a bucket that an earlier activation of it created.
C13_Witness == Len(frames) >= 2 /\ size >= 1

----------------------------------------------------------------------------
\* Every Branch under t has the children new gives it, every Bucket the limit sz.
RECURSIVE WellShaped(_, _)
WellShaped(t, sz) ==
    IF t.kind = "Bucket" THEN t.bucket_limit = sz
    ELSE /\ Len(t.subregions) = Len(Split(t.region))
         /\ \A i \in 1..Len(t.subregions) :
               /\ t.subregions[i].region = Split(t.region)[i]
               /\ WellShaped(t.subregions[i], sz)

\* u is t with some buckets replaced by subtrees: every node of t is in u at the same
\* place with the same region, and the Branches of t are Branches of u.
RECURSIVE Grown(_, _)
Grown(t, u) ==
    /\ u.region = t.region
    /\ t.kind = "Branch" =>
          /\ u.kind = "Branch"
          /\ Len(u.subregions) = Len(t.subregions)
          /\ \A i \in 1..Len(t.subregions) : Grown(t.subregions[i], u.subregions[i])

\* C14: every Branch has one child for each region split() of its own region returns,
\* the child's region being that one, in order; every Bucket carries the bucket limit
\* given to the root's new; and a node that is a Branch stays a Branch of the same
\* region (nodes change from Bucket to Branch only).
C14_Shape ==
    /\ [](WellShaped(tree, size))
    /\ [][Grown(tree, tree')]_vars

\* A bucket of a replacement has itself been replaced by a Branch.
C14_Witness ==
    \E i \in 1..Len(tree.subregions) :
        /\ tree.subregions[i].kind = "Branch"
        /\ \E j \in 1..Len(tree.subregions[i].subregions) :
              tree.subregions[i].subregions[j].kind = "Branch"

----------------------------------------------------------------------------
\* C15: every point a bucket holds is contained in the bucket's own region.
C15_PointsInRegion ==
    \A b \in Buckets(tree) :
        \A i \in 1..Len(b.points) : Contains(b.region, b.points[i])

\* A bucket made by a split holds a point that lies on the upper border of its region.
C15_Witness ==
    \E b \in Buckets(tree) :
        /\ b.region.width < RootWidth \div 2
        /\ \E i \in 1..Len(b.points) : b.points[i].x = b.region.x + b.region.width

----------------------------------------------------------------------------
\* C16: a traversal ends.  Every call of next yields a point or returns None, and it
\* yields at most as many points as the tree holds, so that None comes after finitely
\* many calls; the last call returned None exactly when the stack of cursors is empty
\* and the point cursor is drained; and a call of next after a None returns None again
\* and leaves the iterator as it is.
C16_IteratorTerminates ==
    /\ [](rq.active => Len(rq.out) <= Len(AllPoints(tree)))
    /\ [](rq.active => (rq.done <=> (rq.it.stack = <<>> /\ rq.it.points = <<>>)))
    /\ [][RqNextCall => (rq'.done \/ Len(rq'.out) = Len(rq.out) + 1)]_vars
    /\ [][(RqNextCall /\ rq.done) =>
            (rq'.done /\ rq'.out = rq.out /\ rq'.it = rq.it)]_vars

\* next has returned None twice after a traversal that yielded two points.
C16_Witness == rq.active /\ rq.nones >= 2 /\ Len(rq.out) >= 2

----------------------------------------------------------------------------
\* C17: every point a bucket holds is in the bucket that the descent by the first child
\* containing the point ends at; and when an insert has returned, every point the tree
\* held before it is still in the sequence nearby returns for that point.
C17_StoredAtDescent ==
    /\ \A path \in BucketPaths(tree) :
          \A i \in 1..Len(NodeAt(tree, path).points) :
              FirstPath(tree, NodeAt(tree, path).points[i]) = path
    /\ InsertReturned =>
          \A p \in Range(AllPoints(op.pre)) :
              /\ Nearby(tree, p).some
              /\ p \in Range(Nearby(tree, p).points)

----------------------------------------------------------------------------
\* How often p occurs in the sequence s.
Count(p, s) == Cardinality({i \in DOMAIN s : s[i] = p})

\* C18: a traversal that has run to its end has yielded each value as often as there
\* are stored copies of it that the query contains and whose enclosing nodes, from the
\* root to the bucket, all overlap the query; and at no time has a traversal yielded a
\* value more often than the tree holds it.
C18_EachOccurrenceOnce ==
    /\ (rq.active /\ rq.done) =>
          \A p \in Points :
              Count(p, rq.out)
                = IF Contains(rq.it.query, p) THEN Count(p, Visited(tree, rq.it.query)) ELSE 0
    /\ rq.active => \A p \in Points : Count(p, rq.out) <= Count(p, AllPoints(tree))

\* A traversal has run to its end and yielded a point twice, next to another point.
C18_Witness ==
    /\ rq.active /\ rq.done
    /\ \E p \in Points : Count(p, rq.out) = 2 /\ Len(rq.out) >= 3

====
